---------------------------- MODULE Spec2Model ----------------------------
(***************************************************************************)
(* SVD-based PCA trainer (src/cxx/trainer/src/SVDPCATrainer.cc).           *)
(*                                                                         *)
(* Numbers.  A C++ double is modelled by an exact value                    *)
(*     <<n, d, r>>   standing for   (n / d) * sqrt(r)                      *)
(* with d > 0, gcd(n, d) = 1 and r a square-free positive integer (r = 1   *)
(* for a rational; zero is <<0, 1, 1>>).  The IEEE specials are            *)
(*     NaN = <<0,0,0>>,  +Inf = <<1,0,1>>,  -Inf = <<-1,0,1>>.             *)
(* Rounding is not modelled.  A sum of two values with different radicals  *)
(* is not representable and is mapped to Unrep = <<0,0,1>>; the sample     *)
(* sources below are chosen so that it never arises (see NoUnrep).         *)
(***************************************************************************)
EXTENDS Integers, Sequences, FiniteSets, TLC

\* ------------------------------------------------------------------ bounds
MaxFeatures == 2
MaxSamples  == 2

\* --------------------------------------------------------- exact arithmetic
NaN    == <<0, 0, 0>>
PInf   == <<1, 0, 1>>
NInf   == <<-1, 0, 1>>
Unrep  == <<0, 0, 1>>
Zero   == <<0, 1, 1>>
One    == <<1, 1, 1>>

Abs(a) == IF a < 0 THEN -a ELSE a
Sgn(a) == IF a < 0 THEN -1 ELSE IF a > 0 THEN 1 ELSE 0
\* std::min, and a variant that forgets the second argument
MinFirst(a, b) == a
Min(a, b) == IF a < b THEN a ELSE b

RECURSIVE Gcd(_, _)
Gcd(a, b) == IF b = 0 THEN a ELSE Gcd(b, a % b)

\* largest s with s*s dividing m (m >= 1)
SquarePart(m) == CHOOSE s \in 1..m : /\ m % (s * s) = 0
                                     /\ \A t \in (s + 1)..m : m % (t * t) # 0

\* the value (n/d)*sqrt(r) in normal form; d # 0, r >= 1
Mk(n, d, r) ==
  IF n = 0 THEN Zero
  ELSE LET s  == SquarePart(r)
           n1 == n * s * Sgn(d)
           d1 == Abs(d)
           g  == Gcd(Abs(n1), d1)
       IN  <<n1 \div g, d1 \div g, r \div (s * s)>>

Q(i) == <<i, 1, 1>>

IsNaN(x)    == x = NaN
IsUnrep(x)  == x = Unrep
IsInf(x)    == x = PInf \/ x = NInf
IsFinite(x) == x[2] > 0
IsZero(x)   == x = Zero
Sign(x)     == Sgn(x[1])

Neg(x) == IF IsFinite(x) \/ IsInf(x) THEN <<-x[1], x[2], x[3]>> ELSE x

Add(x, y) ==
  IF IsUnrep(x) \/ IsUnrep(y) THEN Unrep
  ELSE IF IsNaN(x) \/ IsNaN(y) THEN NaN
  ELSE IF IsInf(x) /\ IsInf(y) THEN (IF x = y THEN x ELSE NaN)
  ELSE IF IsInf(x) THEN x
  ELSE IF IsInf(y) THEN y
  ELSE IF IsZero(x) THEN y
  ELSE IF IsZero(y) THEN x
  ELSE IF x[3] # y[3] THEN Unrep
  ELSE Mk(x[1] * y[2] + y[1] * x[2], x[2] * y[2], x[3])

Sub(x, y) == Add(x, Neg(y))

Mul(x, y) ==
  IF IsUnrep(x) \/ IsUnrep(y) THEN Unrep
  ELSE IF IsNaN(x) \/ IsNaN(y) THEN NaN
  ELSE IF IsInf(x) \/ IsInf(y)
       THEN (IF Sign(x) * Sign(y) = 0 THEN NaN
             ELSE IF Sign(x) * Sign(y) > 0 THEN PInf ELSE NInf)
  ELSE LET g == Gcd(x[3], y[3])
       IN  Mk(x[1] * y[1] * g, x[2] * y[2], (x[3] \div g) * (y[3] \div g))

\* IEEE division: x/0 is +-Inf for x # 0 and NaN for x = 0
Div(x, y) ==
  IF IsUnrep(x) \/ IsUnrep(y) THEN Unrep
  ELSE IF IsNaN(x) \/ IsNaN(y) THEN NaN
  ELSE IF IsInf(y) THEN (IF IsInf(x) THEN NaN ELSE Zero)
  ELSE IF IsZero(y)
       THEN (IF Sign(x) = 0 THEN NaN ELSE IF Sign(x) > 0 THEN PInf ELSE NInf)
  ELSE IF IsInf(x) THEN (IF Sign(x) * Sign(y) > 0 THEN PInf ELSE NInf)
  ELSE Mul(x, Mk(y[2], y[1] * y[3], y[3]))

\* blitz::pow2
Pow2(x) == Mul(x, x)

\* blitz::sqrt; the square root of a value that is itself irrational is not
\* representable
Sqrt(x) ==
  IF IsUnrep(x) THEN Unrep
  ELSE IF IsNaN(x) \/ x = NInf THEN NaN
  ELSE IF x = PInf THEN PInf
  ELSE IF Sign(x) < 0 THEN NaN
  ELSE IF IsZero(x) THEN Zero
  ELSE IF x[3] # 1 THEN Unrep
  ELSE Mk(1, x[2], x[1] * x[2])

\* x >= y on finite values with equal radical or zero
Geq(x, y) == LET z == Sub(x, y) IN IsFinite(z) /\ Sign(z) >= 0

\* ------------------------------------------------------- vectors, matrices
\* a blitz::Array<double,2> of extent (r, c); entry (i, j) is F(i, j)
Mat(r, c, F(_, _)) ==
  [rows |-> r, cols |-> c, at |-> [i \in 1..r |-> [j \in 1..c |-> F(i, j)]]]

Vec(n, F(_)) == [i \in 1..n |-> F(i)]

RECURSIVE SumTo(_, _)
\* f[1] + ... + f[n]
SumTo(f, n) == IF n = 0 THEN Zero ELSE Add(SumTo(f, n - 1), f[n])

Transpose(A) == Mat(A.cols, A.rows, LAMBDA i, j : A.at[j][i])

MatMul(A, B) ==
  Mat(A.rows, B.cols,
      LAMBDA i, j : SumTo([k \in 1..A.cols |-> Mul(A.at[i][k], B.at[k][j])],
                          A.cols))

Identity(n) == Mat(n, n, LAMBDA i, j : IF i = j THEN One ELSE Zero)

Diag(v) == Mat(Len(v), Len(v), LAMBDA i, j : IF i = j THEN v[i] ELSE Zero)

\* ------------------------------------------------------------ sample source
\* io::Arrayset as train reads it: getElementType(), getNDim(), getShape()[0],
\* size() and get<double,1>(i).
t_float64  == "float64"
OtherTypes == {"int32"}

Source(type, ndim, nfeat, samples) ==
  [elementType |-> type, ndim |-> ndim, shape0 |-> nfeat, samples |-> samples]

getElementType(a) == a.elementType
getNDim(a)        == a.ndim
size(a)           == Len(a.samples)
getShape0(a)      == a.shape0
get(a, i)         == [f \in 1..a.shape0 |-> Q(a.samples[i][f])]

\* ------------------------------------------------------------ train, pieces
\* size_t arithmetic wraps: 0 - 1 is the largest size_t.  That value is
\* 2^64 - 1 in the build; the model writes it as the largest integer the
\* model checker TLC represents.
SizeMax == 2147483647

\* lines 59-63: one sample per column, in source order
Assemble(a) == Mat(getShape0(a), size(a), LAMBDA f, i : get(a, i)[f])

\* a mean that divides by one less than the number of samples
MeanOffByOne(data) ==
  Vec(data.rows, LAMBDA f : Div(SumTo(data.at[f], data.cols), Q(data.cols - 1)))

\* line 68: blitz::mean(data, j), the mean over the second (sample) index
Mean(data) ==
  Vec(data.rows, LAMBDA f : Div(SumTo(data.at[f], data.cols), Q(data.cols)))

\* line 71: data(all,i) -= mean for every column i
Center(data, mean) ==
  Mat(data.rows, data.cols, LAMBDA f, i : Sub(data.at[f][i], mean[f]))

\* line 80
NSigma(n_features, n_samples) == Min(n_features, n_samples)

\* the population divisor N in place of N - 1
EigenDivisorPopulation(n_samples) == n_samples

\* line 103: blitz::pow2(sigma)/(n_samples-1), the divisor computed in size_t
EigenDivisor(n_samples) == IF n_samples = 0 THEN SizeMax ELSE n_samples - 1

\* lines 102-103: resize to n_sigma, then assign
EigenValues(sigma, n_sigma, n_samples) ==
  Vec(n_sigma, LAMBDA i : Div(Pow2(sigma[i]), Q(EigenDivisor(n_samples))))

\* lines 107-108
ZScoreDivision(eigen_values) ==
  Vec(Len(eigen_values), LAMBDA i : Sqrt(eigen_values[i]))

\* -------------------------------------------------------- Torch::math::svd_
\* The decomposition primitive, by its contract: for an n_features x
\* n_samples matrix X it returns U (n_features x n_sigma, orthonormal
\* columns) and sigma (n_sigma values, non-negative, non-increasing) with
\* X X^T = U diag(sigma^2) U^T, or it fails.  The sign of each column of U
\* and the order of columns with equal singular values are the primitive's
\* choice.  Candidate columns are the unit vectors, which are singular
\* vectors of every matrix with a diagonal X X^T; the sources below are of
\* that kind.
SvdFailure == [U |-> Mat(0, 0, LAMBDA i, j : Zero), sigma |-> <<>>, failed |-> TRUE]

Units(nf) == {[f \in 1..nf |-> IF f = k THEN 1 ELSE 0] : k \in 1..nf}

UCandidates(nf, ns) ==
  {Mat(nf, ns, LAMBDA f, i : Q(c[i][f])) : c \in [1..ns -> Units(nf)]}

\* sigma[i] = || X^T u_i ||
SigmaOf(X, U) ==
  LET P == MatMul(Transpose(X), U)
  IN  Vec(U.cols, LAMBDA i : Sqrt(SumTo([k \in 1..X.cols |-> Pow2(P.at[k][i])],
                                        X.cols)))

IsSvd(X, U, sigma) ==
  /\ U.rows = X.rows /\ U.cols = Len(sigma)
  /\ MatMul(Transpose(U), U) = Identity(U.cols)
  /\ \A i \in 1..Len(sigma) : IsFinite(sigma[i]) /\ Sign(sigma[i]) >= 0
  /\ \A i \in 1..(Len(sigma) - 1) : Geq(Pow2(sigma[i]), Pow2(sigma[i + 1]))
  /\ MatMul(MatMul(U, Diag(Vec(Len(sigma), LAMBDA i : Pow2(sigma[i])))),
            Transpose(U))
       = MatMul(X, Transpose(X))

svd_(X) ==
  {r \in {[U |-> U, sigma |-> SigmaOf(X, U), failed |-> FALSE] :
             U \in UCandidates(X.rows, NSigma(X.rows, X.cols))} :
      IsSvd(X, r.U, r.sigma)}

\* ----------------------------------------------- Torch::machine::LinearMachine
\* The transform, through the operations train uses.  n_inputs is the length
\* of input_sub and input_div, n_outputs the length of biases; weight has
\* one row per output and one column per input.
EmptyMachine ==
  [input_sub |-> <<>>, input_div |-> <<>>, biases |-> <<>>,
   weight |-> Mat(0, 0, LAMBDA i, j : Zero)]

NInputs(m)  == Len(m.input_sub)
NOutputs(m) == Len(m.biases)

\* resize keeps the entries that fit; a new entry holds the indeterminate
\* value g until a setter writes it
resize(m, n_in, n_out, g) ==
  [input_sub |-> Vec(n_in, LAMBDA f : IF f <= NInputs(m) THEN m.input_sub[f] ELSE g),
   input_div |-> Vec(n_in, LAMBDA f : IF f <= NInputs(m) THEN m.input_div[f] ELSE g),
   biases    |-> Vec(n_out, LAMBDA i : IF i <= NOutputs(m) THEN m.biases[i] ELSE g),
   weight    |-> Mat(n_out, n_in,
                     LAMBDA i, f : IF i <= m.weight.rows /\ f <= m.weight.cols
                                   THEN m.weight.at[i][f] ELSE g)]

\* a setter taking an array rejects one whose extent differs from the
\* machine's; AcceptsVector and AcceptsWeights are the setters' guards
AcceptsVector(m, v)  == Len(v) = NInputs(m)
AcceptsWeights(m, W) == W.rows = NOutputs(m) /\ W.cols = NInputs(m)

setInputSubtraction(m, v) == [m EXCEPT !.input_sub = v]
setInputDivisionScalar(m, x) == [m EXCEPT !.input_div = Vec(NInputs(m), LAMBDA f : x)]
setInputDivision(m, v) == [m EXCEPT !.input_div = v]
setBiasesScalar(m, x) == [m EXCEPT !.biases = Vec(NOutputs(m), LAMBDA i : x)]
setWeights(m, W) == [m EXCEPT !.weight = W]

\* output = ((input - input_sub) / input_div) . weight^T + biases
forward(m, input) ==
  LET z == Vec(NInputs(m),
               LAMBDA f : Div(Sub(input[f], m.input_sub[f]), m.input_div[f]))
  IN  Vec(NOutputs(m),
          LAMBDA i : Add(SumTo([f \in 1..NInputs(m) |-> Mul(z[f], m.weight.at[i][f])],
                               NInputs(m)),
                         m.biases[i]))

\* ------------------------------------------------------------------ inputs
\* Sample sources.  Zeros(nf, n): n samples, all zero.  Ramp(nf, n, p): n
\* samples 1, 3, 5, ... along feature p and zero elsewhere (the pattern of
\* the specification's scenario, which is Ramp(2, 4, 1)).
Zeros(nf, n) ==
  Source(t_float64, 1, nf, [s \in 1..n |-> [f \in 1..nf |-> 0]])

Ramp(nf, n, p) ==
  Source(t_float64, 1, nf,
         [s \in 1..n |-> [f \in 1..nf |-> IF f = p THEN 2 * s - 1 ELSE 0]])

BoundedSources ==
  {Zeros(nf, n) : nf \in 0..MaxFeatures, n \in 0..MaxSamples}
  \cup UNION {{Ramp(nf, n, p) : p \in 1..nf, n \in 1..MaxSamples} :
                 nf \in 1..MaxFeatures}

\* the concrete scenario of the specification, and a source with two
\* uncorrelated features of which the second has the larger variance
Scenario == Source(t_float64, 1, 2, <<<<1, 0>>, <<3, 0>>, <<5, 0>>, <<7, 0>>>>)
Swapped  == Source(t_float64, 1, 2, <<<<1, 0>>, <<0, 1>>, <<1, 2>>>>)

Centered(a) == Center(Assemble(a), Mean(Assemble(a)))

GoodSources == BoundedSources \cup {Scenario, Swapped}

\* sources failing a precondition: another element type, or another rank
BadSources ==
  {Source(t, nd, a.shape0, a.samples) :
     t \in OtherTypes \cup {t_float64}, nd \in {1, 2},
     a \in {Zeros(1, 0), Ramp(1, 1, 1), Ramp(2, 2, 2)}}
  \ GoodSources

Sources == GoodSources \cup BadSources

\* values an entry may hold between resize and the setter that writes it
Garbage == {Zero, NaN}

\* ------------------------------------------------------------------- state
VARIABLES
  m_zscore_convert,  \* the trainer's flag
  ar,                \* the sample source the caller holds
  machine,           \* the LinearMachine the caller passes to train
  eigen_values,      \* the eigenvalue array the caller passes to train
  outcome,           \* how the last train call ended; "idle" before any call
  err,               \* what the exception of the last call carries
  before,            \* machine, eigen_values and ar when the last call began
  retrieved,         \* number of ar.get calls made by the last call
  svdArg,            \* the matrix the last call gave to svd_
  svdRes,            \* what svd_ returned to the last call
  handed             \* the arguments the last call handed to the setters

vars == <<m_zscore_convert, ar, machine, eigen_values, outcome, err, before,
          retrieved, svdArg, svdRes, handed>>

NoMatrix == Mat(0, 0, LAMBDA i, j : Zero)
NoErr    == [type |-> <<>>, dim |-> <<>>]
NoHanded == [subtraction |-> <<>>, weights |-> NoMatrix, division |-> <<>>,
             divisionHanded |-> FALSE]

\* the preconditions left out
TypeCheckDropped(a) == FALSE
DimCheckDropped(a)  == FALSE

\* line 46: the element-type precondition
TypeCheckFails(a) == getElementType(a) # t_float64

\* line 50: the rank precondition
DimCheckFails(a) == getNDim(a) # 1

\* line 91: the extents given to machine.resize
ResizeInputs(n_features, n_samples)  == n_features
ResizeOutputs(n_features, n_samples) == Min(n_features, n_samples)

\* line 92
StepInputSubtraction(m, mean) == setInputSubtraction(m, mean)
\* line 93 left out: the division keeps what resize left in it
StepInputDivisionSkipped(m) == m
\* line 93
StepInputDivision(m) == setInputDivisionScalar(m, One)
\* line 94
StepBiases(m) == setBiasesScalar(m, Zero)
\* lines 95-96
StepWeights(m, U) == setWeights(m, Transpose(U))

\* The call train(machine, eigen_values, ar) on machine m and eigenvalue
\* array ev, where svd_ answers r and fresh entries hold g.  The result
\* gives the two output arguments as the call leaves them, how the call
\* ended, and what it did on the way.
Train(m, ev, a, zscore, r, g) ==
  LET quiet == [machine |-> m, eigen_values |-> ev, outcome |-> "ok",
                err |-> NoErr, retrieved |-> 0, svdArg |-> NoMatrix,
                svdRes |-> SvdFailure, handed |-> NoHanded]
  IN
  IF TypeCheckFails(a) THEN
    [quiet EXCEPT !.outcome = "TypeError",
                  !.err = [type |-> <<getElementType(a), t_float64>>, dim |-> <<>>]]
  ELSE IF DimCheckFails(a) THEN
    [quiet EXCEPT !.outcome = "DimensionError",
                  !.err = [type |-> <<>>, dim |-> <<getNDim(a), 1>>]]
  ELSE
    LET n_samples  == size(a)
        n_features == getShape0(a)
        data       == Assemble(a)
        mean       == Mean(data)
        X          == Center(data, mean)
        n_sigma    == NSigma(n_features, n_samples)
        loaded     == [quiet EXCEPT !.retrieved = n_samples, !.svdArg = X,
                                    !.svdRes = r]
    IN
    IF r.failed THEN [loaded EXCEPT !.outcome = "SvdError"]
    ELSE
      LET m1 == resize(m, ResizeInputs(n_features, n_samples),
                       ResizeOutputs(n_features, n_samples), g)
          m2 == StepInputSubtraction(m1, mean)
          m3 == StepInputDivision(m2)
          m4 == StepBiases(m3)
          Ut == Transpose(r.U)
          m5 == StepWeights(m4, r.U)
          ev1 == EigenValues(r.sigma, n_sigma, n_samples)
          tmp == ZScoreDivision(ev1)
          h3 == [NoHanded EXCEPT !.subtraction = mean]
          h5 == [h3 EXCEPT !.weights = Ut]
          h6 == [h5 EXCEPT !.division = tmp, !.divisionHanded = TRUE]
      IN
      IF ~AcceptsVector(m1, mean) THEN
        [loaded EXCEPT !.machine = m1, !.handed = h3,
                       !.outcome = "NInputsMismatch"]
      ELSE IF ~AcceptsWeights(m4, Ut) THEN
        [loaded EXCEPT !.machine = m4, !.handed = h5,
                       !.outcome = "NInputsMismatch"]
      ELSE IF ~zscore THEN
        [loaded EXCEPT !.machine = m5, !.eigen_values = ev1, !.handed = h5]
      ELSE IF ~AcceptsVector(m5, tmp) THEN
        [loaded EXCEPT !.machine = m5, !.eigen_values = ev1, !.handed = h6,
                       !.outcome = "NInputsMismatch"]
      ELSE
        [loaded EXCEPT !.machine = setInputDivision(m5, tmp),
                       !.eigen_values = ev1, !.handed = h6]

\* what svd_ may answer to train on source a: a decomposition of the matrix
\* train hands to it, or a failure
SvdTable == [a \in Sources |-> svd_(Centered(a))]

SvdAnswers(a) ==
  IF TypeCheckFails(a) \/ DimCheckFails(a) THEN {SvdFailure}
  ELSE SvdTable[a] \cup {SvdFailure}

Init ==
  /\ m_zscore_convert = FALSE
  /\ ar = Source(t_float64, 1, 0, <<>>)
  /\ machine = EmptyMachine
  /\ eigen_values = <<>>
  /\ outcome = "idle"
  /\ err = NoErr
  /\ before = [machine |-> EmptyMachine, eigen_values |-> <<>>,
               ar |-> Source(t_float64, 1, 0, <<>>)]
  /\ retrieved = 0
  /\ svdArg = NoMatrix
  /\ svdRes = SvdFailure
  /\ handed = NoHanded

Forget ==
  /\ outcome' = "idle"
  /\ err' = NoErr
  /\ before' = [machine |-> machine, eigen_values |-> eigen_values, ar |-> ar']
  /\ retrieved' = 0
  /\ svdArg' = NoMatrix
  /\ svdRes' = SvdFailure
  /\ handed' = NoHanded

\* lines 22-40: a trainer is constructed, copied or assigned with flag z
NewTrainer ==
  \E z \in BOOLEAN :
    /\ m_zscore_convert' = z
    /\ UNCHANGED <<ar, machine, eigen_values>>
    /\ Forget

\* the caller takes another sample source
Load ==
  \E a \in Sources :
    /\ ar' = a
    /\ UNCHANGED <<m_zscore_convert, machine, eigen_values>>
    /\ Forget

\* lines 42-111: train(machine, eigen_values, ar)
TrainCall ==
  \E r \in SvdAnswers(ar), g \in Garbage :
    LET t == Train(machine, eigen_values, ar, m_zscore_convert, r, g)
    IN  /\ machine' = t.machine
        /\ eigen_values' = t.eigen_values
        /\ outcome' = t.outcome
        /\ err' = t.err
        /\ before' = [machine |-> machine, eigen_values |-> eigen_values,
                      ar |-> ar]
        /\ retrieved' = t.retrieved
        /\ svdArg' = t.svdArg
        /\ svdRes' = t.svdRes
        /\ handed' = t.handed
        /\ UNCHANGED <<m_zscore_convert, ar>>

Next == NewTrainer \/ Load \/ TrainCall

Spec == Init /\ [][Next]_vars

\* ------------------------------------------------------- sanity of the model
\* every value the call produces is representable, and svd_ has an answer
\* for every source that passes the preconditions
NoUnrep ==
  /\ \A f \in 1..NInputs(machine) :
       ~IsUnrep(machine.input_sub[f]) /\ ~IsUnrep(machine.input_div[f])
  /\ \A i \in 1..Len(eigen_values) : ~IsUnrep(eigen_values[i])
  /\ \A a \in GoodSources : SvdTable[a] # {}

\* --------------------------------------------- applying the trained transform
\* the outputs of the machine on every sample of source a, in source order
Outputs(m, a) == [s \in 1..size(a) |-> forward(m, get(a, s))]

\* sample variance (divisor n - 1) of the values v[1..n]
SampleVariance(v) ==
  LET n  == Len(v)
      mu == Div(SumTo(v, n), Q(n))
  IN  Div(SumTo([s \in 1..n |-> Pow2(Sub(v[s], mu))], n), Q(n - 1))

OutputVariance(m, a, i) ==
  SampleVariance([s \in 1..size(a) |-> Outputs(m, a)[s][i]])

\* ------------------------------------------------------------------ claims
Returned   == outcome # "idle"
Succeeded  == outcome = "ok"
Failed     == outcome \notin {"idle", "ok"}
Untouched  == machine = before.machine /\ eigen_values = before.eigen_values
NSamples   == Len(ar.samples)
NFeatures  == ar.shape0
Smaller    == IF NFeatures < NSamples THEN NFeatures ELSE NSamples

\* C1: a source whose element type is not float64 makes train fail with a
\* type error carrying the found type and float64, with the machine and the
\* eigenvalue array as they were before the call and no sample retrieved.
C1_TypeMismatch ==
  (Returned /\ ar.elementType # "float64") =>
     /\ outcome = "TypeError"
     /\ err.type = <<ar.elementType, "float64">>
     /\ Untouched
     /\ retrieved = 0

C1_Witness ==
  /\ outcome = "TypeError"
  /\ ar.ndim = 2 /\ NSamples > 0
  /\ NInputs(before.machine) > 0 /\ Len(before.eigen_values) > 0

\* C2: a float64 source whose rank is not 1 makes train fail with a
\* dimension error carrying the found rank and 1, before any sample is
\* read, anything is given to svd_, or an output is modified.
C2_RankMismatch ==
  (Returned /\ ar.elementType = "float64" /\ ar.ndim # 1) =>
     /\ outcome = "DimensionError"
     /\ err.dim = <<ar.ndim, 1>>
     /\ retrieved = 0
     /\ svdArg = NoMatrix
     /\ handed = NoHanded
     /\ Untouched

C2_Witness ==
  /\ outcome = "DimensionError"
  /\ NSamples > 0
  /\ NInputs(before.machine) > 0 /\ Len(before.eigen_values) > 0

\* C3: every eigenvalue train writes is a finite non-negative number and
\* the eigenvalues are in non-increasing order, for every source that
\* passes the preconditions (n_samples = 0 and n_samples = 1 included).
C3_EigenvaluesOrdered ==
  (outcome \in {"ok", "NInputsMismatch"}) =>
     /\ \A i \in 1..Len(eigen_values) :
          IsFinite(eigen_values[i]) /\ Sign(eigen_values[i]) >= 0
     /\ \A i \in 1..(Len(eigen_values) - 1) :
          Geq(eigen_values[i], eigen_values[i + 1])

\* C4: after a successful call the eigenvalue array and the rows of the
\* weight matrix both number min(n_features, n_samples) and the machine
\* takes n_features inputs, whatever the sizes were before the call.
C4_Shapes ==
  Succeeded =>
     /\ Len(eigen_values) = Smaller
     /\ machine.weight.rows = Smaller
     /\ NOutputs(machine) = Smaller
     /\ machine.weight.cols = NFeatures
     /\ NInputs(machine) = NFeatures
     /\ Len(machine.input_div) = NFeatures

C4_Witness ==
  /\ Succeeded
  /\ NSamples < NFeatures /\ NSamples > 0
  /\ NInputs(before.machine) \notin {0, NFeatures}
  /\ Len(before.eigen_values) > 0

C6_Mean ==
  Succeeded =>
     /\ Len(machine.input_sub) = NFeatures
     /\ \A f \in 1..NFeatures :
          IF NSamples = 0 THEN IsNaN(machine.input_sub[f])
          ELSE Mul(machine.input_sub[f], Q(NSamples))
                 = SumTo([s \in 1..NSamples |-> Q(ar.samples[s][f])], NSamples)
     /\ svdArg.rows = NFeatures /\ svdArg.cols = NSamples
     /\ \A f \in 1..NFeatures : \A s \in 1..NSamples :
          Add(svdArg.at[f][s], machine.input_sub[f]) = Q(ar.samples[s][f])
     /\ retrieved = NSamples
     /\ ar = before.ar
     /\ (ar.samples = <<<<1, 0>>, <<3, 0>>, <<5, 0>>, <<7, 0>>>>
           => machine.input_sub = <<Q(4), Q(0)>>)

C6_Witness ==
  /\ Succeeded
  /\ ar.samples = <<<<1, 0>>, <<3, 0>>, <<5, 0>>, <<7, 0>>>>
  /\ machine.input_sub = <<Q(4), Q(0)>>

\* C7: with zscore_convert set and more than one sample, after train the
\* input division is the element-wise square root of the eigenvalues and
\* the outputs of the trained machine on the training samples have sample
\* variance 1 on every output axis.  Stated for the sources that vary along
\* every output axis (every singular value svd_ returned is positive), where
\* a unit variance is possible at all.
C7_UnitVariance ==
  (Returned /\ m_zscore_convert /\ ar.elementType = "float64" /\ ar.ndim = 1
     /\ svdRes.failed = FALSE /\ NSamples > 1
     /\ \A i \in 1..Len(svdRes.sigma) : Sign(svdRes.sigma[i]) > 0) =>
     /\ Succeeded
     /\ Len(machine.input_div) = Len(eigen_values)
     /\ \A i \in 1..Len(eigen_values) :
          Pow2(machine.input_div[i]) = eigen_values[i]
     /\ \A i \in 1..NOutputs(machine) : OutputVariance(machine, ar, i) = One

\* C8: what a successful call leaves in the machine and the eigenvalue
\* array depends only on the source and the flag: it is what the same call
\* leaves in a fresh machine and an empty array, and without the flag the
\* input division is 1.0 throughout.
C8_Overwrites ==
  Succeeded =>
     /\ \A g \in Garbage :
          LET fresh == Train(EmptyMachine, <<>>, ar, m_zscore_convert, svdRes, g)
          IN  /\ fresh.outcome = "ok"
              /\ machine = fresh.machine
              /\ eigen_values = fresh.eigen_values
     /\ ~m_zscore_convert =>
          \A f \in 1..NInputs(machine) : machine.input_div[f] = One
     /\ \A i \in 1..NOutputs(machine) : machine.biases[i] = Zero

C8_Witness ==
  /\ Succeeded
  /\ ~m_zscore_convert
  /\ NFeatures > 0
  /\ NInputs(before.machine) = NFeatures
  /\ \E f \in 1..NFeatures :
       before.machine.input_div[f] # One /\ machine.input_div[f] = One

\* C9: whenever a call fails (a precondition, svd_, or a setter rejecting
\* its argument) the machine and the eigenvalue array are as they were
\* before the call.
C9_NoPartialUpdate == Failed => Untouched

\* C10: every argument handed to a setter fits the machine as just resized:
\* subtraction and any division vector have n_features entries, the weights
\* are n_sigma x n_features, and every entry of a division vector is
\* strictly positive.
C10_ArgumentsFit ==
  (outcome \in {"ok", "NInputsMismatch"}) =>
     /\ Len(handed.subtraction) = NFeatures
     /\ handed.weights.rows = Smaller /\ handed.weights.cols = NFeatures
     /\ handed.divisionHanded =>
          /\ Len(handed.division) = NFeatures
          /\ \A f \in 1..Len(handed.division) :
               IsFinite(handed.division[f]) /\ Sign(handed.division[f]) > 0

=============================================================================
